---- MODULE Spec2Model ----
(***************************************************************************)
(* Model of src/models/extra_settings.rs: the ExtraSettings value, its     *)
(* Default construction from the global settings snapshot, the lazily      *)
(* created (js_runtime, js_context) pair and eval_filter_function, which   *)
(* evaluates a script in that context and retains the nodes its `filter`   *)
(* accepts.                                                                *)
(*                                                                         *)
(* The scripting engine (rquickjs) is outside the source file; it is       *)
(* modelled by its interface: what ctx.eval returns, what the context's    *)
(* global `filter` binding is afterwards, and what each call of `filter`   *)
(* returns.  A script is described by the former two; the result of every  *)
(* single call, and what the calls do to the global, are answers of the    *)
(* engine drawn when the calls are made, since script code may depend on   *)
(* and change any engine state.                                            *)
(***************************************************************************)
EXTENDS Integers, Sequences, FiniteSets, TLC

VARIABLES
    global,          \* the process-wide Settings snapshot read by default()
    settings,        \* the ExtraSettings value (all 26 fields)
    globals_filter,  \* kind of the `filter` binding of the js_context's global object
    nodes,           \* the caller's Vec<Proxy> as the last call left it
    last,            \* record of the last eval_filter_function call
    runtimes_created \* how many Runtime::new() calls this instance has made

vars == <<global, settings, globals_filter, nodes, last, runtimes_created>>

(***************************************************************************)
(* Bounds                                                                  *)
(***************************************************************************)
MaxLen == 2

(***************************************************************************)
(* Option<T>                                                               *)
(***************************************************************************)
None == [some |-> FALSE, id |-> 0]
Some(i) == [some |-> TRUE, id |-> i]

(***************************************************************************)
(* Proxy nodes.  Proxy is defined outside this file; two fields stand for  *)
(* the record, and two node values for the collection's universe.          *)
(***************************************************************************)
NodeA == [remark |-> "A", port |-> 80]
NodeB == [remark |-> "B", port |-> 0]
Nodes == {NodeA, NodeB}

RECURSIVE SeqsUpTo(_, _)
SeqsUpTo(S, n) ==
    IF n = 0 THEN {<<>>}
    ELSE LET shorter == SeqsUpTo(S, n - 1)
         IN  shorter \cup {Append(s, x) : s \in {t \in shorter : Len(t) = n - 1}, x \in S}

NodeLists == SeqsUpTo(Nodes, MaxLen)


(***************************************************************************)
(* Scripts, by what the engine does with them.                             *)
(*   top    : what ctx.eval makes of the source: "ok"; "throw" (the script  *)
(*            ran and threw: Error::Exception with a pending exception);   *)
(*            "syntax_error" (the source does not parse: the engine raises *)
(*            a SyntaxError object, again Error::Exception with a pending  *)
(*            exception, and no statement of the script runs); "error"     *)
(*            (any other rquickjs::Error, e.g. a NUL byte in the source).  *)
(*   thrown : kind of the pending exception value.                         *)
(*   def    : what running the script does to the global `filter`: "keep"  *)
(*            (defines no binding), "noncallable" or "function".           *)
(***************************************************************************)
DefKinds == {"keep", "noncallable", "function"}
ThrownKinds == {"string", "error_object", "other"}

Scripts ==
    {[top |-> "ok", thrown |-> "none", def |-> d] : d \in DefKinds}
    \cup {[top |-> "throw", thrown |-> k, def |-> d] : k \in ThrownKinds, d \in DefKinds}
    \cup {[top |-> "syntax_error", thrown |-> "error_object", def |-> "keep"]}
    \cup {[top |-> "error", thrown |-> "none", def |-> "keep"]}

NoScript == [top |-> "none", thrown |-> "none", def |-> "keep"]

(***************************************************************************)
(* Answers of the engine to the calls of `filter` made by one              *)
(* eval_filter_function: the outcome of each call in order, and what the   *)
(* script code run by those calls did to the global `filter`.              *)
(*   "true"/"false" : the call returned that boolean                       *)
(*   "throw"        : the function threw                                   *)
(*   "nonbool"      : it returned a value that is no boolean               *)
(*   "marshal"      : the argument could not be converted; no script ran   *)
(***************************************************************************)
CallOutcomes == {"true", "false", "throw", "nonbool", "marshal"}
FailOutcomes == {"throw", "nonbool", "marshal"}
SideEffects == {"keep", "noncallable"}

AllOutcomeSeqs == SeqsUpTo(CallOutcomes, MaxLen)
OutcomeSeqsByLen == [n \in 0..MaxLen |-> {s \in AllOutcomeSeqs : Len(s) = n}]
OutcomeSeqs(n) == OutcomeSeqsByLen[n]

NoAnswers == [outcomes |-> <<>>, sets |-> "keep"]

(***************************************************************************)
(* Default for ExtraSettings                                               *)
(***************************************************************************)
Styles == {"", "flow", "block"}
Paths == {"", "/usr/bin/ssr-local"}

GlobalSnapshots ==
    [enable_rule_gen : BOOLEAN, overwrite_original_rules : BOOLEAN,
     surge_ssr_path : Paths, clash_proxies_style : Styles,
     clash_proxy_groups_style : Styles]

DefaultStyleVerbatim(style) == style

\* if global.<style>.is_empty() { "flow" } else { global.<style>.clone() }
DefaultStyle(style) == IF style = "" THEN "flow" ELSE style

Default(g) ==
    [enable_rule_generator |-> g.enable_rule_gen,
     overwrite_original_rules |-> g.overwrite_original_rules,
     rename_array |-> <<>>,
     emoji_array |-> <<>>,
     add_emoji |-> FALSE,
     remove_emoji |-> FALSE,
     append_proxy_type |-> FALSE,
     nodelist |-> FALSE,
     sort_flag |-> FALSE,
     filter_deprecated |-> FALSE,
     clash_new_field_name |-> TRUE,
     clash_script |-> FALSE,
     surge_ssr_path |-> g.surge_ssr_path,
     managed_config_prefix |-> "",
     quanx_dev_id |-> "",
     udp |-> "None",
     tfo |-> "None",
     skip_cert_verify |-> "None",
     tls13 |-> "None",
     clash_classical_ruleset |-> FALSE,
     sort_script |-> "",
     clash_proxies_style |-> DefaultStyle(g.clash_proxies_style),
     clash_proxy_groups_style |-> DefaultStyle(g.clash_proxy_groups_style),
     authorized |-> FALSE,
     js_context |-> None,
     js_runtime |-> None,
     constructed |-> TRUE]

\* the value before default() has run (SpecDefault only)
NotConstructed == [Default(CHOOSE g \in GlobalSnapshots : TRUE) EXCEPT
                      !.constructed = FALSE,
                      !.clash_proxies_style = "",
                      !.clash_proxy_groups_style = ""]

(***************************************************************************)
(* init_js_context                                                         *)
(***************************************************************************)
\* Outcomes of the two engine constructors of one init_js_context.  Both
\* return a Result (the engine could not allocate); nothing is constructed
\* when the runtime is already there.
\*   "ok"          : Runtime::new() and Context::full() both return Ok
\*   "runtime_err" : Runtime::new() returns Err
\*   "context_err" : Runtime::new() returns Ok, Context::full() returns Err
EngineInits(s) ==
    IF ~s.js_runtime.some THEN {"ok", "runtime_err", "context_err"} ELSE {"ok"}

\* An engine handle is identified by the serial number of the successful
\* Runtime::new() call that made it; the context is made from that runtime.
\* Line 142 assigns js_runtime once Runtime::new().unwrap() has returned;
\* line 143 then assigns js_context once Context::full(..).unwrap() has.  An
\* unwrap of Err panics: on line 142 before anything is assigned, on line 143
\* with js_runtime already assigned.
InitJsContext(s, created, init) ==
    IF ~s.js_runtime.some
    THEN IF init = "runtime_err"
         THEN [settings |-> s, created |-> created, panicked |-> TRUE]
         ELSE LET s1 == [s EXCEPT !.js_runtime = Some(created + 1)]
              IN  IF init = "context_err"
                  THEN [settings |-> s1, created |-> created + 1,
                        panicked |-> TRUE]
                  ELSE [settings |-> [s1 EXCEPT !.js_context = Some(created + 1)],
                        created |-> created + 1,
                        panicked |-> FALSE]
    ELSE [settings |-> s, created |-> created, panicked |-> FALSE]


(***************************************************************************)
(* The engine                                                              *)
(***************************************************************************)
\* ctx.eval(source_str): Ok, Err(Error::Exception) or Err(other)
CtxEval(script) ==
    CASE script.top = "ok" -> "Ok"
      [] script.top \in {"throw", "syntax_error"} -> "Exception"
      [] OTHER -> "Other"

\* the global `filter` after ctx.eval (a script that did not parse, or that
\* the engine refused, never ran)
GlobalsAfterEval(gf, script) ==
    IF script.top \in {"error", "syntax_error"} \/ script.def = "keep"
    THEN gf
    ELSE script.def

\* the global `filter` after the calls of filter: script code that ran in a
\* call may have reassigned it
GlobalsAfterCalls(gf, eng) ==
    IF eng.sets # "keep" /\ \E i \in 1..Len(eng.outcomes) : eng.outcomes[i] # "marshal"
    THEN eng.sets
    ELSE gf

\* ctx.globals().get::<_, Function>("filter")
GetFilter(gf) == gf = "function"

\* the engine is asked for call results only when filter is going to be called
EngineAnswers(gf, script, ns) ==
    IF CtxEval(script) = "Ok" /\ GetFilter(GlobalsAfterEval(gf, script))
    THEN [outcomes : OutcomeSeqs(Len(ns)), sets : SideEffects]
    ELSE {NoAnswers}

\* ... and only by a call that has a context to evaluate in
CallAnswers(has_context, gf, script, ns) ==
    IF has_context THEN EngineAnswers(gf, script, ns) ELSE {NoAnswers}

\* what the script's filter may do to the value it is handed
ScriptMutates(arg) == [arg EXCEPT !.remark = "mutated", !.port = 65535]

CallByReference(out, node) ==
    [ok |-> out \in {"true", "false"},
     value |-> out = "true",
     node |-> IF out = "marshal" THEN node ELSE ScriptMutates(node)]

\* filter_evaluated.call::<(Proxy,), bool>((node.clone(),)) with the engine's
\* outcome `out`: the script gets a clone, converted to a JS value; the Vec's
\* element is not reachable from it.
CallFilter(out, node) ==
    LET arg == node
        argAfter == IF out = "marshal" THEN arg ELSE ScriptMutates(arg)
    IN  [ok |-> out \in {"true", "false"},
         value |-> out = "true",
         node |-> node]

RetainIgnoringValue(r) == r.ok

RetainFailOpen(r) == IF r.ok THEN r.value ELSE TRUE

\* match call { Ok(value) => value, Err(e) => { log; false } }
Retain(r) == IF r.ok THEN r.value ELSE FALSE

\* nodes.retain_mut(|node| ...): visits every element in order, keeps those
\* for which the closure returns true.
RECURSIVE RetainMut(_, _, _, _)
RetainMut(ns, outcomes, kept, calls) ==
    IF ns = <<>> THEN [kept |-> kept, calls |-> calls]
    ELSE LET r == CallFilter(Head(outcomes), Head(ns))
         IN  RetainMut(Tail(ns), Tail(outcomes),
                       IF Retain(r) THEN Append(kept, r.node) ELSE kept,
                       Append(calls, Head(ns)))

(***************************************************************************)
(* eval_filter_function                                                    *)
(***************************************************************************)
NoError == "None"

\* log::error!(fmt, args): the arguments are evaluated only when the Error
\* level is enabled; a disabled level skips them altogether.
LogErrorEvaluatesArgs(enabled) == enabled

\* The Error level of the log crate at the time of the call: process state
\* outside the instance that may change between calls (log::set_max_level).
\* It decides one thing, whether the arguments of the log::error! on lines
\* 161-168 are evaluated, so it is drawn only for calls that reach that line.
LogLevels(script) == IF CtxEval(script) = "Exception" THEN BOOLEAN ELSE {FALSE}

\* the Err(e) arm of the match on ctx.eval: the Exception arm logs
\* ctx.catch().try_into_string().unwrap(), an argument of log::error!, which
\* runs only when the Error level is enabled and then panics unless the
\* pending exception value is a JS string; otherwise error_thrown = Some(e).
EvalErrArm(e, thrown, enabled) ==
    IF e = "Exception"
    THEN [panicked |-> LogErrorEvaluatesArgs(enabled) /\ thrown # "string",
          error_thrown |-> e]
    ELSE [panicked |-> FALSE, error_thrown |-> e]

\* the closure passed to context.with
ContextWith(gf, ns, script, enabled, eng) ==
    LET ev == CtxEval(script)
        gf2 == GlobalsAfterEval(gf, script)
    IN  IF ev # "Ok"
        THEN LET arm == EvalErrArm(ev, script.thrown, enabled)
             IN  [panicked |-> arm.panicked, error_thrown |-> arm.error_thrown,
                  nodes |-> ns, globals_filter |-> gf2, looked_up |-> FALSE,
                  found |-> FALSE, calls |-> <<>>, outcomes |-> <<>>]
        ELSE IF ~GetFilter(gf2)
             THEN [panicked |-> FALSE, error_thrown |-> NoError,
                   nodes |-> ns, globals_filter |-> gf2, looked_up |-> TRUE,
                   found |-> FALSE, calls |-> <<>>, outcomes |-> <<>>]
             ELSE LET r == RetainMut(ns, eng.outcomes, <<>>, <<>>)
                  IN  [panicked |-> FALSE, error_thrown |-> NoError,
                       nodes |-> r.kept,
                       globals_filter |-> GlobalsAfterCalls(gf2, eng),
                       looked_up |-> TRUE, found |-> TRUE, calls |-> r.calls,
                       outcomes |-> eng.outcomes]

\* what the retain_mut closure got from the calls: Ok(true), Ok(false), Err(e)
Returned(outcomes) ==
    [i \in 1..Len(outcomes) |->
        IF outcomes[i] \in FailOutcomes THEN "Err" ELSE outcomes[i]]

NoCall ==
    [made |-> FALSE, nodes_in |-> <<>>, script |-> NoScript, rt_before |-> None,
     evaluated |-> FALSE, looked_up |-> FALSE, found |-> FALSE,
     calls |-> <<>>, returned |-> <<>>, result |-> "none"]

\* a call that did not get as far as ctx.eval
NotEvaluated(ns, source_str, rt_before, result) ==
    [made |-> TRUE, nodes_in |-> ns, script |-> source_str,
     rt_before |-> rt_before,
     evaluated |-> FALSE, looked_up |-> FALSE, found |-> FALSE,
     calls |-> <<>>, returned |-> <<>>, result |-> result]

\* One call.  A call that panicked (result "panic") unwinds out of the
\* function; the instance is left as the statements before the panic made it
\* and accepts further calls if the caller caught the unwind.
EvalFilterFunction(ns, source_str, init, eng, error_log_enabled) ==
    /\ settings.constructed
    /\ LET i == InitJsContext(settings, runtimes_created, init)
           s == i.settings
       IN  /\ settings' = s
           /\ runtimes_created' = i.created
           /\ IF i.panicked
              THEN /\ globals_filter' = globals_filter
                   /\ nodes' = ns
                   /\ last' = NotEvaluated(ns, source_str, settings.js_runtime,
                                           "panic")
              ELSE IF s.js_context.some
              THEN \E w \in {ContextWith(globals_filter, ns, source_str,
                                         error_log_enabled, eng)} :
                       /\ globals_filter' = w.globals_filter
                       /\ nodes' = w.nodes
                       /\ last' = [made |-> TRUE, nodes_in |-> ns,
                                   script |-> source_str,
                                   rt_before |-> settings.js_runtime,
                                   evaluated |-> TRUE,
                                   looked_up |-> w.looked_up, found |-> w.found,
                                   calls |-> w.calls, returned |-> Returned(w.outcomes),
                                   result |-> IF w.panicked THEN "panic"
                                              ELSE IF w.error_thrown # NoError
                                                   THEN "Err_" \o w.error_thrown
                                                   ELSE "Ok"]
              ELSE /\ globals_filter' = globals_filter
                   /\ nodes' = ns
                   /\ last' = NotEvaluated(ns, source_str, settings.js_runtime,
                                           "Err_NoContext")
    /\ UNCHANGED global

(***************************************************************************)
(* Specifications                                                          *)
(***************************************************************************)
\* the snapshot the filtering runs are checked under: both styles empty
InitGlobal ==
    [enable_rule_gen |-> TRUE, overwrite_original_rules |-> FALSE,
     surge_ssr_path |-> "", clash_proxies_style |-> "",
     clash_proxy_groups_style |-> ""]

Init ==
    /\ global = InitGlobal
    /\ settings = Default(global)
    /\ globals_filter = "undefined"
    /\ nodes = <<>>
    /\ last = NoCall
    /\ runtimes_created = 0

Next ==
    \E ns \in NodeLists, source_str \in Scripts, init \in EngineInits(settings) :
        \E eng \in CallAnswers(
                       InitJsContext(settings, runtimes_created, init)
                           .settings.js_context.some,
                       globals_filter, source_str, ns),
           enabled \in LogLevels(source_str) :
            EvalFilterFunction(ns, source_str, init, eng, enabled)

Spec == Init /\ [][Next]_vars

\* ExtraSettings::default() as a function of the snapshot
InitDefault ==
    /\ global \in GlobalSnapshots
    /\ settings = NotConstructed
    /\ globals_filter = "undefined"
    /\ nodes = <<>>
    /\ last = NoCall
    /\ runtimes_created = 0

Construct ==
    /\ ~settings.constructed
    /\ settings' = Default(global)
    /\ UNCHANGED <<global, globals_filter, nodes, last, runtimes_created>>

NextDefault == Construct

SpecDefault == InitDefault /\ [][NextDefault]_vars

(***************************************************************************)
(* Properties                                                              *)
(***************************************************************************)
\* the elements of ns whose call of filter returned true, in order
AcceptedOf(ns, returned) ==
    LET pairs == [i \in 1..Len(ns) |-> <<ns[i], returned[i]>>]
        sel == SelectSeq(pairs, LAMBDA p : p[2] = "true")
    IN  [i \in 1..Len(sel) |-> sel[i][1]]

FailsOnSome(returned) == \E i \in 1..Len(returned) : returned[i] = "Err"

\* a is b with some elements removed: same values, same relative order
RECURSIVE IsSubsequence(_, _)
IsSubsequence(a, b) ==
    IF a = <<>> THEN TRUE
    ELSE IF b = <<>> THEN FALSE
    ELSE IF Head(a) = Head(b) THEN IsSubsequence(Tail(a), Tail(b))
    ELSE IsSubsequence(a, Tail(b))

DefinesCallableFilter(script) == script.def = "function"

\* C1: when the script evaluates successfully at top level, defines a callable
\* global filter, and eval_filter_function returns Ok, the node list is exactly
\* the input's elements for which filter returned true, in their original order.
C1_KeepsExactlyAccepted ==
    (last.made /\ last.script.top = "ok" /\ DefinesCallableFilter(last.script)
        /\ last.result = "Ok")
    => /\ Len(last.returned) = Len(last.nodes_in)
       /\ nodes = AcceptedOf(last.nodes_in, last.returned)

C1_Witness ==
    /\ last.made /\ last.script.top = "ok" /\ DefinesCallableFilter(last.script)
    /\ last.result = "Ok"
    /\ last.nodes_in = <<NodeA, NodeB>>
    /\ last.returned = <<"true", "false">>
    /\ nodes = <<NodeA>>

\* C2: when the script evaluates successfully but the lookup finds no callable
\* global filter, eval_filter_function returns a failure, not Ok.
C2_MissingFilterIsFailure ==
    (last.made /\ last.script.top = "ok" /\ last.looked_up /\ ~last.found)
    => last.result \notin {"Ok", "panic"}

\* C3: when the script throws at top level, whatever the kind of the thrown
\* value, eval_filter_function returns the script-exception failure, never
\* calls filter and leaves the node list equal to its input.
\* (Refuted when the Error log level is enabled and the thrown value is not a
\* string: the call panics instead of returning.)
C3_ThrowReturnsException ==
    (last.made /\ last.evaluated /\ last.script.top = "throw")
    => (last.result = "Err_Exception" /\ last.calls = <<>> /\ nodes = last.nodes_in)

\* C4: in every call of a sequence of calls on one settings instance, a script
\* that defines no filter binding leaves the node list equal to its input.
C4_NoBindingLeavesNodes ==
    (last.made /\ last.script.def = "keep") => nodes = last.nodes_in

\* C5: when filter fails on some node (marshalling error, exception in the
\* call, non-boolean result) that node is dropped, the loop still visits every
\* node, the others are kept or dropped by their own result, and the call
\* returns Ok.
C5_PerCallFailureDropsNode ==
    (last.made /\ last.found /\ FailsOnSome(last.returned))
    => /\ last.result = "Ok"
       /\ last.calls = last.nodes_in
       /\ Len(last.returned) = Len(last.nodes_in)
       /\ nodes = AcceptedOf(last.nodes_in, last.returned)
       /\ Len(nodes) = Cardinality({i \in 1..Len(last.returned) :
                                       last.returned[i] = "true"})

C5_Witness ==
    /\ last.made /\ last.found
    /\ last.nodes_in = <<NodeB, NodeA>>
    /\ last.returned = <<"Err", "true">>
    /\ nodes = <<NodeA>>
    /\ last.result = "Ok"

\* C6: when top-level evaluation fails with an evaluation error that is not a
\* throw of the script (a syntax error or an engine fault),
\* eval_filter_function returns an Err carrying that error, filter is neither
\* looked up nor called, and the node list equals its input.
\* (Refuted for a syntax error when the Error log level is enabled: the engine
\* reports it as a pending SyntaxError object, the Exception arm's
\* try_into_string().unwrap() panics, and the call does not return.)
C6_EvalErrorReturned ==
    (last.made /\ last.evaluated /\ last.script.top \in {"syntax_error", "error"})
    => /\ last.result = "Err_" \o CtxEval(last.script)
       /\ ~last.looked_up
       /\ last.calls = <<>>
       /\ nodes = last.nodes_in

\* C7: across any sequence of calls on one instance the first call creates the
\* runtime/context pair, so the pair exists after every call, and every call
\* after the first, also one that follows a failed call, leaves the pair as
\* it found it.
\* (Refuted by a first call whose engine construction fails: no pair exists
\* after it; a later call then creates the runtime, or, if js_runtime was
\* assigned before the failure, every later call runs without a context.)
C7_CreatedByFirstCallOnly ==
    [][/\ settings'.js_runtime.some /\ settings'.js_context.some
       /\ last.made => /\ settings'.js_runtime = settings.js_runtime
                       /\ settings'.js_context = settings.js_context
                       /\ runtimes_created' = runtimes_created]_vars

\* The part of the reuse rule that holds on every path: once js_runtime is
\* present no call assigns js_runtime or js_context again and no further
\* runtime is constructed.
ContextNeverReplaced ==
    [][settings.js_runtime.some
        => /\ settings'.js_runtime = settings.js_runtime
           /\ settings'.js_context = settings.js_context
           /\ runtimes_created' = runtimes_created]_vars

\* C8: js_runtime and js_context are both absent until the first call of
\* eval_filter_function and both present from then on.
\* (Refuted by a first call in which Context::full fails after js_runtime was
\* assigned, and by one in which Runtime::new fails.)
C8_PairTogether ==
    /\ settings.js_runtime.some <=> settings.js_context.some
    /\ last.made <=> settings.js_runtime.some

\* C9: default() sets each clash style to the snapshot's value when that is
\* non-empty and to "flow" when it is empty, so neither is empty after
\* construction; js_context and js_runtime are None.
C9_DefaultStyles ==
    settings.constructed
    => /\ settings.clash_proxies_style =
              (IF global.clash_proxies_style = "" THEN "flow"
               ELSE global.clash_proxies_style)
       /\ settings.clash_proxy_groups_style =
              (IF global.clash_proxy_groups_style = "" THEN "flow"
               ELSE global.clash_proxy_groups_style)
       /\ settings.clash_proxies_style # ""
       /\ settings.clash_proxy_groups_style # ""
       /\ settings.js_context = None /\ settings.js_runtime = None

C9_Witness ==
    /\ settings.constructed
    /\ global.clash_proxies_style = ""
    /\ global.clash_proxy_groups_style = "block"
    /\ settings.clash_proxies_style = "flow"
    /\ settings.clash_proxy_groups_style = "block"

\* C10: every node that survives a call is value-identical to an element of
\* the input, in the input's order: the call only removes elements, whatever
\* the script did to the argument it was handed.
C10_OnlyRemoves ==
    last.made => IsSubsequence(nodes, last.nodes_in)

\* filter ran on both nodes (and so altered its arguments) and both survived
C10_Witness ==
    /\ last.made /\ last.found
    /\ last.returned = <<"true", "true">>
    /\ last.nodes_in = <<NodeB, NodeA>>
    /\ nodes = <<NodeB, NodeA>>

====
